---- MODULE Spec2Model ----
(***************************************************************************)
(* BTP DEG Helper (app.py): one run of the Streamlit script, from the      *)
(* uploaded GEO2R / GPL tables to the three download artifacts.            *)
(*                                                                         *)
(* A DataFrame is a record [columns, rows]: columns is the sequence of     *)
(* column labels, rows the sequence of rows, each row a record             *)
(* [index, cells] where index is the pandas row label and cells maps each  *)
(* column label to the cell value.  Strings are sequences of characters;   *)
(* numbers are integers (adj.P.Val in hundredths, logFC in whole units).    *)
(***************************************************************************)
EXTENDS Integers, Sequences, FiniteSets, TLC

\* ------------------------------------------------------------- bounds
MaxRows == 2
MaxGplRows == 2

\* ------------------------------------------------------------- values
NaN == <<"NaN">>
SO1 == <<"S", "O", "1">>
SO_1 == <<"S", "O", "_", "1">>
X1 == <<"X", "1">>
SO9 == <<"S", "O", "9">>
SO_9 == <<"S", "O", "_", "9">>

FdrCutoffs == {5}
LogfcCutoffs == {0, 2}
IdValues == {1, 2}
AdjPValues == {5, 6}
LogFCValues == {-3, 0, 2}
MergeAdjPValues == {5}
OrfValues == {SO1, SO_1, NaN}
GplOrfValues == {SO1, X1}
OldLocusTagValues == {SO9}

GeoColumnOrder == <<"ID", "adj.P.Val", "logFC", "ORF", "Locus_tag">>
GplColumnOrder == <<"ID", "ORF">>

Range(s) == {s[i] : i \in DOMAIN s}

Abs(x) == IF x < 0 THEN -x ELSE x

\* ------------------------------------------------------------- strings
\* str(tag) / astype(str): a missing value becomes the text "nan"
Str(v) == IF v = NaN THEN <<"n", "a", "n">> ELSE v

startswith(s, prefix) ==
    /\ Len(s) >= Len(prefix)
    /\ SubSeq(s, 1, Len(prefix)) = prefix

fix_so(tag) ==
    LET t == Str(tag)
    IN  IF startswith(t, <<"S", "O">>) /\ "_" \notin Range(t) /\ Len(t) > 2
        THEN <<"S", "O", "_">> \o SubSeq(t, 3, Len(t))
        ELSE t

\* ------------------------------------------------------------- DataFrames
EmptyFrame == [columns |-> <<>>, rows |-> <<>>]

ColumnSet(df) == Range(df.columns)

AddCell(cells, c, v) ==
    [x \in (DOMAIN cells) \cup {c} |-> IF x = c THEN v ELSE cells[x]]

\* df.drop(columns=[c])
DropColumn(df, c) ==
    [columns |-> SelectSeq(df.columns, LAMBDA x : x # c),
     rows |-> [i \in DOMAIN df.rows |->
                 [index |-> df.rows[i].index,
                  cells |-> [x \in (DOMAIN df.rows[i].cells) \ {c} |->
                               df.rows[i].cells[x]]]]]

\* df.rename(columns={old: new}); a frame without the column is unchanged
RenameColumn(df, old, new) ==
    IF old \notin ColumnSet(df) THEN df
    ELSE
    [columns |-> [i \in DOMAIN df.columns |->
                    IF df.columns[i] = old THEN new ELSE df.columns[i]],
     rows |-> [i \in DOMAIN df.rows |->
                 [index |-> df.rows[i].index,
                  cells |-> [x \in ((DOMAIN df.rows[i].cells) \ {old}) \cup {new} |->
                               IF x = new THEN df.rows[i].cells[old]
                               ELSE df.rows[i].cells[x]]]]]

\* df.drop_duplicates(subset=[c]): the first row of each value is kept
drop_duplicates(rows, c) ==
    LET F[i \in 0..Len(rows)] ==
          IF i = 0 THEN <<>>
          ELSE IF \E j \in 1..(i - 1) : rows[j].cells[c] = rows[i].cells[c]
               THEN F[i - 1]
               ELSE Append(F[i - 1], rows[i])
    IN  F[Len(rows)]

\* the row labels of a freshly built frame: 0, 1, 2, ...
ResetIndex(rows) ==
    [i \in DOMAIN rows |-> [index |-> i - 1, cells |-> rows[i].cells]]

\* pd.merge(left, right[["ID", "ORF"]], on="ID", how="left"): every left row
\* in order, once per matching right row (in right order), or once with a
\* missing ORF when nothing matches
MergeRow(l, right) ==
    LET m == SelectSeq(right, LAMBDA g : g.cells["ID"] = l.cells["ID"])
    IN  IF m = <<>>
        THEN <<[index |-> 0, cells |-> AddCell(l.cells, "ORF", NaN)]>>
        ELSE [k \in DOMAIN m |->
                [index |-> 0, cells |-> AddCell(l.cells, "ORF", m[k].cells["ORF"])]]

merge(left, right) ==
    LET F[i \in 0..Len(left.rows)] ==
          IF i = 0 THEN <<>>
          ELSE F[i - 1] \o MergeRow(left.rows[i], right.rows)
    IN  [columns |-> Append(left.columns, "ORF"),
         rows |-> ResetIndex(F[Len(left.rows)])]

\* df.dropna(subset=[c])
dropna(df, c) ==
    [columns |-> df.columns,
     rows |-> SelectSeq(df.rows, LAMBDA r : r.cells[c] # NaN)]

\* ------------------------------------------------------------- uploads
\* the tables read_uploaded_file can return, up to the bounds
FramesOver(order, S, cellsOf, k) ==
    {[columns |-> SelectSeq(order, LAMBDA c : c \in S),
      rows |-> [i \in 1..k |-> [index |-> i - 1, cells |-> f[i]]]] :
        f \in [1..k -> cellsOf]}

GeoCells(S) ==
    {[c \in S |-> CASE c = "ID" -> id
                    [] c = "adj.P.Val" -> p
                    [] c = "logFC" -> l
                    [] c = "ORF" -> o
                    [] OTHER -> t] :
        id \in (IF "ID" \in S THEN IdValues ELSE {0}),
        p \in (IF "adj.P.Val" \notin S THEN {0}
               ELSE IF "ID" \in S THEN MergeAdjPValues ELSE AdjPValues),
        l \in (IF "logFC" \in S THEN LogFCValues ELSE {0}),
        o \in (IF "ORF" \in S THEN OrfValues ELSE {NaN}),
        t \in (IF "Locus_tag" \in S THEN OldLocusTagValues ELSE {NaN})}

\* a results table carries a probe ID column or an ORF column, not both;
\* the tables keyed by probe ID draw adj.P.Val from MergeAdjPValues
GeoColumnSets ==
    {S \in SUBSET Range(GeoColumnOrder) : ~({"ID", "ORF"} \subseteq S)}

GeoFiles ==
    UNION {UNION {FramesOver(GeoColumnOrder, S, GeoCells(S), k) : k \in 0..MaxRows} :
             S \in GeoColumnSets}

GplCells(S) ==
    {[c \in S |-> IF c = "ID" THEN id ELSE o] :
        id \in (IF "ID" \in S THEN IdValues ELSE {0}),
        o \in (IF "ORF" \in S THEN GplOrfValues ELSE {NaN})}

GplFiles ==
    UNION {UNION {FramesOver(GplColumnOrder, S, GplCells(S), k) : k \in 0..MaxGplRows} :
             S \in SUBSET Range(GplColumnOrder)}

\* ------------------------------------------------------------- state
VARIABLES
    pc,                  \* the section of the script about to run
    fdr_cutoff, logfc_cutoff, add_underscore, one_probe_per_gene,
    geo_file, gpl_file,  \* whether each file was uploaded
    geo_preview,         \* the column labels st.dataframe showed for the GEO2R table
    geo_df, gpl_df, mode,
    merged, before_drop, after_drop, invalid_count,
    merged_deg, test_up, control_up,
    deg_bytes, test_up_bytes, control_up_bytes,
    download_buttons,    \* the st.download_button calls made
    message, missing     \* the st.info / st.error / st.warning shown, and its set

settings == <<fdr_cutoff, logfc_cutoff, add_underscore, one_probe_per_gene>>
uploads == <<geo_file, gpl_file>>
frames == <<geo_preview, geo_df, gpl_df, mode, merged, before_drop, after_drop,
           invalid_count>>
degs == <<merged_deg, test_up, control_up>>
outputs == <<deg_bytes, test_up_bytes, control_up_bytes, download_buttons>>
vars == <<pc, settings, uploads, frames, degs, outputs, message, missing>>

\* an artifact that was not produced
NoBytes == <<>>
NoTable == [header |-> <<>>, lines |-> <<>>]

Init ==
    /\ pc = "upload"
    /\ fdr_cutoff \in FdrCutoffs
    /\ logfc_cutoff \in LogfcCutoffs
    /\ add_underscore \in BOOLEAN
    /\ one_probe_per_gene \in BOOLEAN
    /\ geo_file \in BOOLEAN
    /\ gpl_file \in BOOLEAN
    /\ geo_preview = <<>>
    /\ geo_df = EmptyFrame
    /\ gpl_df = EmptyFrame
    /\ mode = "none"
    /\ merged = EmptyFrame
    /\ before_drop = 0
    /\ after_drop = 0
    /\ invalid_count = 0
    /\ merged_deg = EmptyFrame
    /\ test_up = EmptyFrame
    /\ control_up = EmptyFrame
    /\ deg_bytes = NoTable
    /\ test_up_bytes = NoBytes
    /\ control_up_bytes = NoBytes
    /\ download_buttons = {}
    /\ message = "none"
    /\ missing = {}

\* st.stop() after a message
Stop(msg, miss) ==
    /\ pc' = "stopped"
    /\ message' = msg
    /\ missing' = miss

\* ------------------------------------------------------------- the script
\* lines 119-128: no GEO2R upload stops the run, else the file is read
NoGeoFile ==
    /\ pc = "upload"
    /\ ~geo_file
    /\ Stop("upload_geo2r", {})
    /\ UNCHANGED <<settings, uploads, frames, degs, outputs>>

ReadGeo ==
    /\ pc = "upload"
    /\ geo_file
    /\ \E f \in GeoFiles :
         /\ geo_df' = f
         /\ geo_preview' = f.columns
    /\ pc' = "detect"
    /\ UNCHANGED <<settings, uploads, gpl_df, mode, merged, before_drop, after_drop,
                   invalid_count, degs, outputs, message, missing>>

\* lines 130-140: drop an old Locus_tag column, then pick the mode
\* variant: the old Locus_tag column is kept
KeepOldLocusTag(df) == df

DropOldLocusTag(df) ==
    IF "Locus_tag" \in ColumnSet(df) THEN DropColumn(df, "Locus_tag") ELSE df

has_orf(df) == "ORF" \in ColumnSet(df)
has_locus(df) == "Locus_tag" \in ColumnSet(df)

DetectMode ==
    /\ pc = "detect"
    /\ geo_df' = DropOldLocusTag(geo_df)
    /\ mode' = IF has_orf(geo_df') \/ has_locus(geo_df') THEN "single" ELSE "merge"
    /\ pc' = mode'
    /\ UNCHANGED <<settings, uploads, geo_preview, gpl_df, merged, before_drop, after_drop,
                   invalid_count, degs, outputs, message, missing>>

\* variant: only one of the missing columns is reported
MissingFirst(required, df) ==
    LET m == required \ ColumnSet(df)
    IN  IF m = {} THEN {} ELSE {CHOOSE c \in m : TRUE}

\* required - set(df.columns)
MissingCols(required, df) == required \ ColumnSet(df)

\* lines 144-160
SingleRequiredCols == {"adj.P.Val", "logFC", "Locus_tag"}

SingleMode ==
    /\ pc = "single"
    /\ LET df == IF ~has_locus(geo_df) /\ has_orf(geo_df)
                 THEN RenameColumn(geo_df, "ORF", "Locus_tag")
                 ELSE geo_df
           miss == MissingCols(SingleRequiredCols, df)
       IN  /\ geo_df' = df
           /\ IF miss # {}
              THEN /\ Stop("geo2r_missing_required_columns", miss)
                   /\ merged' = merged
              ELSE /\ merged' = df
                   /\ pc' = "clean"
                   /\ UNCHANGED <<message, missing>>
    /\ UNCHANGED <<settings, uploads, geo_preview, gpl_df, mode, before_drop,
                   after_drop, invalid_count, degs, outputs>>

\* lines 164-215
MergeRequiredGeoCols == {"ID", "adj.P.Val", "logFC"}
MergeRequiredGplCols == {"ID", "ORF"}

MergeMode ==
    /\ pc = "merge"
    /\ IF ~gpl_file
       THEN /\ Stop("gpl_required", {})
            /\ UNCHANGED <<geo_df, gpl_df, merged, before_drop, after_drop>>
       ELSE \E g \in GplFiles :
            LET missing_geo == MissingCols(MergeRequiredGeoCols, geo_df)
                missing_gpl == MissingCols(MergeRequiredGplCols, g)
                dedup == [columns |-> geo_df.columns,
                          rows |-> drop_duplicates(geo_df.rows, "ID")]
                joined == RenameColumn(merge(dedup, g), "ORF", "Locus_tag")
                kept == dropna(joined, "Locus_tag")
            IN  /\ gpl_df' = g
                /\ IF missing_geo # {}
                   THEN /\ Stop("geo2r_missing_columns", missing_geo)
                        /\ UNCHANGED <<geo_df, merged, before_drop, after_drop>>
                   ELSE IF missing_gpl # {}
                   THEN /\ Stop("gpl_missing_columns", missing_gpl)
                        /\ UNCHANGED <<geo_df, merged, before_drop, after_drop>>
                   ELSE /\ geo_df' = dedup
                        /\ before_drop' = Len(joined.rows)
                        /\ merged' = kept
                        /\ after_drop' = Len(kept.rows)
                        /\ pc' = "clean"
                        /\ UNCHANGED <<message, missing>>
    /\ UNCHANGED <<settings, uploads, geo_preview, mode, invalid_count, degs, outputs>>

\* lines 217-228
ApplyFixSo(df) ==
    [columns |-> df.columns,
     rows |-> [i \in DOMAIN df.rows |->
                 [index |-> df.rows[i].index,
                  cells |-> [df.rows[i].cells EXCEPT
                               !["Locus_tag"] = fix_so(df.rows[i].cells["Locus_tag"])]]]]

\* variant: missing values pass the prefix test (startswith(..., na=True))
valid_mask_na(r) ==
    \/ r.cells["Locus_tag"] = NaN
    \/ startswith(r.cells["Locus_tag"], <<"S", "O">>)

valid_mask(r) == startswith(Str(r.cells["Locus_tag"]), <<"S", "O">>)

CleanLocusTag ==
    /\ pc = "clean"
    /\ LET fixed == IF add_underscore THEN ApplyFixSo(merged) ELSE merged
           valid == SelectSeq(fixed.rows, valid_mask)
       IN  /\ invalid_count' = Len(fixed.rows) - Len(valid)
           /\ merged' = [columns |-> fixed.columns, rows |-> valid]
    /\ pc' = "deg_filter"
    /\ UNCHANGED <<settings, uploads, geo_preview, geo_df, gpl_df, mode, before_drop,
                   after_drop, degs, outputs, message, missing>>

\* lines 230-243
\* variant: the FDR bound exclusive
deg_mask_strict(r, fdr, lfc) ==
    /\ r.cells["adj.P.Val"] < fdr
    /\ Abs(r.cells["logFC"]) >= lfc

deg_mask(r, fdr, lfc) ==
    /\ r.cells["adj.P.Val"] <= fdr
    /\ Abs(r.cells["logFC"]) >= lfc

\* variant: the emptiness test never fires
never_empty(df) == FALSE

\* merged_deg.empty
empty(df) == df.rows = <<>>

DegFilter ==
    /\ pc = "deg_filter"
    /\ IF "adj.P.Val" \notin ColumnSet(merged) \/ "logFC" \notin ColumnSet(merged)
       THEN /\ Stop("missing_stat_columns", {})
            /\ UNCHANGED merged_deg
       ELSE LET deg == [columns |-> merged.columns,
                        rows |-> SelectSeq(merged.rows,
                                   LAMBDA r : deg_mask(r, fdr_cutoff, logfc_cutoff))]
            IN  /\ merged_deg' = deg
                /\ IF empty(deg)
                   THEN Stop("no_degs", {})
                   ELSE /\ pc' = "dedup"
                        /\ UNCHANGED <<message, missing>>
    /\ UNCHANGED <<settings, uploads, frames, test_up, control_up, outputs>>

\* lines 245-250
AddAbsLogFC(df) ==
    [columns |-> Append(df.columns, "abs_logFC"),
     rows |-> [i \in DOMAIN df.rows |->
                 [index |-> df.rows[i].index,
                  cells |-> AddCell(df.rows[i].cells, "abs_logFC",
                                    Abs(df.rows[i].cells["logFC"]))]]]

\* sort_values("abs_logFC", ascending=False) with the default kind="quicksort",
\* which is not a stable sort: rows of equal abs_logFC come out in an order
\* that depends on the numpy build, so every descending order is an outcome
RECURSIVE DescendingOrders(_, _)
DescendingOrders(rows, S) ==
    IF S = {} THEN {<<>>}
    ELSE LET top == {i \in S : \A j \in S :
                       rows[i].cells["abs_logFC"] >= rows[j].cells["abs_logFC"]}
         IN  UNION {{<<rows[i]>> \o t : t \in DescendingOrders(rows, S \ {i})} :
                      i \in top}

\* variant: the sort left ascending
sort_values_ascending(rows) ==
    {[i \in DOMAIN t |-> t[Len(t) + 1 - i]] : t \in DescendingOrders(rows, DOMAIN rows)}

sort_values(rows) == DescendingOrders(rows, DOMAIN rows)

Dedup ==
    /\ pc = "dedup"
    /\ LET abs == AddAbsLogFC(merged_deg)
       IN  IF one_probe_per_gene
           THEN \E sorted \in sort_values(abs.rows) :
                  merged_deg' = [columns |-> abs.columns,
                                 rows |-> drop_duplicates(sorted, "Locus_tag")]
           ELSE merged_deg' = abs
    /\ pc' = "split"
    /\ UNCHANGED <<settings, uploads, frames, test_up, control_up, outputs,
                   message, missing>>

\* lines 252-254
\* variant: the down-set test with a strict comparison
is_control_up_strict(r, lfc) == r.cells["logFC"] < -lfc

is_control_up(r, lfc) == r.cells["logFC"] <= -lfc
is_test_up(r, lfc) == r.cells["logFC"] >= lfc

Split ==
    /\ pc = "split"
    /\ test_up' = [columns |-> merged_deg.columns,
                   rows |-> SelectSeq(merged_deg.rows,
                              LAMBDA r : is_test_up(r, logfc_cutoff))]
    /\ control_up' = [columns |-> merged_deg.columns,
                      rows |-> SelectSeq(merged_deg.rows,
                                 LAMBDA r : is_control_up(r, logfc_cutoff))]
    /\ pc' = "downloads"
    /\ UNCHANGED <<settings, uploads, frames, merged_deg, outputs, message, missing>>

\* lines 83-92 and 265-292
Digit(d) == <<"0", "1", "2", "3", "4", "5", "6", "7", "8", "9">>[d + 1]

RECURSIVE NatText(_)
NatText(n) == IF n < 10 THEN <<Digit(n)>> ELSE NatText(n \div 10) \o <<Digit(n % 10)>>

\* the text to_csv writes for a cell: a missing value is the empty field
CellText(c, v) ==
    IF c \in {"Locus_tag", "ORF"}
    THEN (IF v = NaN THEN <<>> ELSE v)
    ELSE (IF v < 0 THEN <<"-">> \o NatText(-v) ELSE NatText(v))

df_to_tsv_bytes(df) ==
    [header |-> df.columns,
     lines |-> [i \in DOMAIN df.rows |->
                  [j \in DOMAIN df.columns |->
                     CellText(df.columns[j], df.rows[i].cells[df.columns[j]])]]]

series_to_txt_bytes(rows) ==
    [i \in DOMAIN rows |-> CellText("Locus_tag", rows[i].cells["Locus_tag"])]

Downloads ==
    /\ pc = "downloads"
    /\ deg_bytes' = df_to_tsv_bytes(merged_deg)
    /\ test_up_bytes' = series_to_txt_bytes(drop_duplicates(test_up.rows, "Locus_tag"))
    /\ control_up_bytes' =
         series_to_txt_bytes(drop_duplicates(control_up.rows, "Locus_tag"))
    /\ download_buttons' = {"DEG_table", "test_up_locus_tags", "control_up_locus_tags"}
    /\ pc' = "done"
    /\ UNCHANGED <<settings, uploads, frames, degs, message, missing>>

Next ==
    \/ NoGeoFile
    \/ ReadGeo
    \/ DetectMode
    \/ SingleMode
    \/ MergeMode
    \/ CleanLocusTag
    \/ DegFilter
    \/ Dedup
    \/ Split
    \/ Downloads

Spec == Init /\ [][Next]_vars

TypeOK == pc \in {"upload", "detect", "single", "merge", "clean", "deg_filter",
                  "dedup", "split", "downloads", "done", "stopped"}

\* ------------------------------------------------------------- properties
Tag(r) == r.cells["Locus_tag"]
LogFC(r) == r.cells["logFC"]

\* a row of the DEG table without the working column
Core(r) ==
    [index |-> r.index,
     cells |-> [c \in (DOMAIN r.cells) \ {"abs_logFC"} |-> r.cells[c]]]

InFrame(df, r) == \E i \in DOMAIN df.rows : df.rows[i] = r

\* the annotated rows (merged after cleaning) that are significant, written
\* out from the two thresholds
Significant(r) ==
    /\ ~(r.cells["adj.P.Val"] > fdr_cutoff)
    /\ (LogFC(r) >= logfc_cutoff \/ -LogFC(r) >= logfc_cutoff)

SignificantRows == SelectSeq(merged.rows, Significant)

AfterDedup == pc \in {"split", "downloads", "done"}
AfterSplit == pc \in {"downloads", "done"}

\* C1: every row of the final DegSet is in test_up iff logFC >= logfc_cutoff
\* and in control_up iff logFC <= -logfc_cutoff; with a positive cutoff no row
\* is in both, with cutoff 0 a row of logFC 0 is in both; the two sets hold
\* rows of DegSet only.
C1_Partition ==
    AfterSplit =>
      /\ \A i \in DOMAIN merged_deg.rows :
           LET r == merged_deg.rows[i]
           IN  /\ InFrame(test_up, r) <=> (LogFC(r) >= logfc_cutoff)
               /\ InFrame(control_up, r) <=> (LogFC(r) <= -logfc_cutoff)
               /\ logfc_cutoff > 0 => ~(InFrame(test_up, r) /\ InFrame(control_up, r))
               /\ (logfc_cutoff = 0 /\ LogFC(r) = 0) =>
                    (InFrame(test_up, r) /\ InFrame(control_up, r))
      /\ \A i \in DOMAIN test_up.rows : InFrame(merged_deg, test_up.rows[i])
      /\ \A i \in DOMAIN control_up.rows : InFrame(merged_deg, control_up.rows[i])

C1_Witness ==
    /\ pc = "done"
    /\ logfc_cutoff = 0
    /\ \E i \in DOMAIN merged_deg.rows :
         /\ LogFC(merged_deg.rows[i]) = 0
         /\ InFrame(test_up, merged_deg.rows[i])
         /\ InFrame(control_up, merged_deg.rows[i])
    /\ \E i \in DOMAIN merged_deg.rows :
         /\ LogFC(merged_deg.rows[i]) < 0
         /\ ~InFrame(test_up, merged_deg.rows[i])

\* C2: with one_probe_per_gene, no two rows of the final DegSet share a
\* Locus_tag, every Locus_tag that passed the significance filter is kept in
\* exactly one row, that row is one of the significant rows and its |logFC| is
\* at least that of every significant row of the gene; once split, a kept row
\* of negative logFC is in control_up.
C2_DedupInvariant ==
    (AfterDedup /\ one_probe_per_gene) =>
      /\ \A i, j \in DOMAIN merged_deg.rows :
           Tag(merged_deg.rows[i]) = Tag(merged_deg.rows[j]) => i = j
      /\ \A k \in DOMAIN SignificantRows :
           Cardinality({i \in DOMAIN merged_deg.rows :
                          Tag(merged_deg.rows[i]) = Tag(SignificantRows[k])}) = 1
      /\ \A i \in DOMAIN merged_deg.rows :
           /\ \E k \in DOMAIN SignificantRows :
                Core(merged_deg.rows[i]) = SignificantRows[k]
           /\ \A k \in DOMAIN SignificantRows :
                Tag(SignificantRows[k]) = Tag(merged_deg.rows[i]) =>
                  Abs(LogFC(merged_deg.rows[i])) >= Abs(LogFC(SignificantRows[k]))
           /\ (AfterSplit /\ LogFC(merged_deg.rows[i]) < 0) =>
                InFrame(control_up, merged_deg.rows[i])

\* two significant rows of one gene with logFC 2 and -3: the -3 row alone
\* survives and is in control_up
C2_Witness ==
    /\ pc = "done"
    /\ one_probe_per_gene
    /\ \E k, l \in DOMAIN SignificantRows :
         /\ Tag(SignificantRows[k]) = Tag(SignificantRows[l])
         /\ LogFC(SignificantRows[k]) = 2
         /\ LogFC(SignificantRows[l]) = -3
    /\ Len(merged_deg.rows) = 1
    /\ LogFC(merged_deg.rows[1]) = -3
    /\ InFrame(control_up, merged_deg.rows[1])

\* C3: the rows entering deduplication are exactly the annotated rows with
\* adj.P.Val <= fdr_cutoff and |logFC| >= logfc_cutoff, in their order; the
\* run stops with the no-DEG notice exactly when there are none; without
\* one_probe_per_gene the final DegSet is this set.
C3_SignificanceFilter ==
    /\ pc = "dedup" => merged_deg.rows = SignificantRows
    /\ message = "no_degs" => SignificantRows = <<>>
    /\ (pc \in {"dedup", "split", "downloads", "done"}) => SignificantRows # <<>>
    /\ (AfterDedup /\ ~one_probe_per_gene) =>
         /\ Len(merged_deg.rows) = Len(SignificantRows)
         /\ \A i \in DOMAIN merged_deg.rows :
              Core(merged_deg.rows[i]) = SignificantRows[i]

\* a row exactly on both bounds is kept while another row is rejected
C3_Witness ==
    /\ pc = "dedup"
    /\ logfc_cutoff > 0
    /\ \E i \in DOMAIN merged_deg.rows :
         /\ merged_deg.rows[i].cells["adj.P.Val"] = fdr_cutoff
         /\ Abs(LogFC(merged_deg.rows[i])) = logfc_cutoff
    /\ Len(merged_deg.rows) < Len(merged.rows)

\* C4: the DEG table artifact has the original columns in their order and no
\* internal working column (abs_logFC).
C4_NoWorkingColumn ==
    pc = "done" =>
      /\ "abs_logFC" \notin Range(deg_bytes.header)
      /\ deg_bytes.header = merged.columns

\* C5: in merge mode every row surviving the join has a non-null identifier
\* taken from the annotation table, and the reported dropped count equals
\* (results rows after deduplication by probe ID) - (rows remaining before
\* the identifier filter), the number of results rows with no annotation match.
Unmatched ==
    {i \in DOMAIN geo_df.rows :
       ~\E k \in DOMAIN gpl_df.rows :
          gpl_df.rows[k].cells["ID"] = geo_df.rows[i].cells["ID"]}

C5_JoinCompleteness ==
    (mode = "merge" /\ pc = "clean") =>
      /\ \A i \in DOMAIN merged.rows :
           /\ Tag(merged.rows[i]) # NaN
           /\ \E k \in DOMAIN gpl_df.rows :
                /\ gpl_df.rows[k].cells["ID"] = merged.rows[i].cells["ID"]
                /\ gpl_df.rows[k].cells["ORF"] = Tag(merged.rows[i])
      /\ before_drop - after_drop = Len(geo_df.rows) - Len(merged.rows)
      /\ before_drop - after_drop = Cardinality(Unmatched)

\* C6: an input Locus_tag column is discarded first; the run is in single-file
\* mode iff the results table has an ORF column (no annotation table is then
\* needed) and in merge mode otherwise; no value of an input Locus_tag column
\* reaches an output: every output Locus_tag is the ORF of the results table
\* (single-file mode) or of the annotation table (merge mode), normalised.
Normalised(v) == IF add_underscore THEN fix_so(v) ELSE v

FromOrf(r) ==
    IF mode = "single"
    THEN \E i \in DOMAIN geo_df.rows :
           /\ geo_df.rows[i].index = r.index
           /\ Tag(r) = Normalised(Tag(geo_df.rows[i]))
    ELSE \E k \in DOMAIN gpl_df.rows :
           /\ gpl_df.rows[k].cells["ID"] = r.cells["ID"]
           /\ Tag(r) = Normalised(gpl_df.rows[k].cells["ORF"])

C6_ModeSelection ==
    /\ (pc \notin {"upload", "detect"} /\ message # "upload_geo2r") =>
         /\ mode = (IF "ORF" \in Range(geo_preview) THEN "single" ELSE "merge")
         /\ pc \in {"single", "merge"} => "Locus_tag" \notin ColumnSet(geo_df)
    /\ mode = "single" => message \notin {"gpl_required", "gpl_missing_columns"}
    /\ (mode = "single" /\ (pc = "clean" \/ message = "no_degs")) =>
         "ORF" \notin ColumnSet(merged)
    /\ pc = "done" =>
         /\ \A i \in DOMAIN merged_deg.rows :
              /\ FromOrf(merged_deg.rows[i])
              /\ Tag(merged_deg.rows[i]) \notin {SO9, SO_9}
         /\ Range(test_up_bytes) \cup Range(control_up_bytes) \subseteq
              {Tag(merged_deg.rows[i]) : i \in DOMAIN merged_deg.rows}

\* a results table with ORF and an old Locus_tag column, no GPL file: the run
\* completes in single-file mode
C6_Witness ==
    /\ pc = "done"
    /\ mode = "single"
    /\ ~gpl_file
    /\ "Locus_tag" \in Range(geo_preview)
    /\ test_up_bytes # <<>>

\* C7: a run that shows an error or the no-DEG notice has stopped, a stopped
\* run takes no further step and has produced none of the three artifacts;
\* the artifacts are produced together, only by a run that showed no message
\* and has a non-empty DegSet.
Messages ==
    {"upload_geo2r", "geo2r_missing_required_columns", "gpl_required",
     "geo2r_missing_columns", "gpl_missing_columns", "missing_stat_columns", "no_degs"}

NoArtifacts ==
    /\ download_buttons = {}
    /\ deg_bytes = NoTable
    /\ test_up_bytes = NoBytes
    /\ control_up_bytes = NoBytes

C7_ErrorsTerminal ==
    /\ message \in Messages \cup {"none"}
    /\ message # "none" <=> pc = "stopped"
    /\ pc = "stopped" => (NoArtifacts /\ ~ENABLED Next)
    /\ pc # "done" => NoArtifacts
    /\ pc = "done" =>
         /\ download_buttons = {"DEG_table", "test_up_locus_tags", "control_up_locus_tags"}
         /\ message = "none"
         /\ merged_deg.rows # <<>>
         /\ Len(deg_bytes.lines) = Len(merged_deg.rows)
    /\ pc \in {"dedup", "split", "downloads"} => merged_deg.rows # <<>>

\* annotated rows reached the filter and none passed it
C7_Witness ==
    /\ pc = "stopped"
    /\ message = "no_degs"
    /\ merged.rows # <<>>
    /\ NoArtifacts

\* C8 as stated: whenever a required column is absent from an input table the
\* run fails with a missing-columns error naming exactly all absent required
\* columns.
MissingColumnMessages ==
    {"geo2r_missing_required_columns", "geo2r_missing_columns", "gpl_missing_columns"}

AbsentGeo ==
    IF mode = "single" THEN SingleRequiredCols \ ColumnSet(geo_df)
    ELSE MergeRequiredGeoCols \ ColumnSet(geo_df)

AbsentGpl ==
    IF mode = "merge" /\ gpl_file THEN MergeRequiredGplCols \ ColumnSet(gpl_df) ELSE {}

ModeRan == mode \in {"single", "merge"} /\ pc \notin {"single", "merge"}

C8_AllGapsInOneReport ==
    (ModeRan /\ (AbsentGeo \cup AbsentGpl) # {}) =>
      /\ pc = "stopped"
      /\ message \in MissingColumnMessages
      /\ missing = AbsentGeo \cup AbsentGpl

\* C8 amended: a missing-columns error names one table and exactly all of that
\* table's absent required columns; the results table is checked first, the
\* annotation table only when the results table is complete, and in merge
\* mode without an annotation table the missing-annotation error comes first.
C8_PerTableReport ==
    ModeRan =>
      /\ (mode = "merge" /\ ~gpl_file) => (message = "gpl_required" /\ missing = {})
      /\ (mode = "single" /\ AbsentGeo # {}) =>
           (message = "geo2r_missing_required_columns" /\ missing = AbsentGeo)
      /\ (mode = "merge" /\ gpl_file /\ AbsentGeo # {}) =>
           (message = "geo2r_missing_columns" /\ missing = AbsentGeo)
      /\ (mode = "merge" /\ gpl_file /\ AbsentGeo = {} /\ AbsentGpl # {}) =>
           (message = "gpl_missing_columns" /\ missing = AbsentGpl)
      /\ ((mode = "single" \/ gpl_file) /\ AbsentGeo = {} /\ AbsentGpl = {}) =>
           (message \notin MissingColumnMessages /\ missing = {})

\* both statistical columns are absent and both are named
C8_Witness ==
    /\ pc = "stopped"
    /\ message \in {"geo2r_missing_required_columns", "geo2r_missing_columns"}
    /\ missing = {"adj.P.Val", "logFC"}

\* C9: with one_probe_per_gene, among the significant rows of one Locus_tag
\* that share the maximum |logFC| the one kept is the first in the original
\* row order.
C9_FirstOfTiesKept ==
    (AfterDedup /\ one_probe_per_gene) =>
      \A i \in DOMAIN merged_deg.rows :
        ~\E k \in DOMAIN SignificantRows :
           /\ Tag(SignificantRows[k]) = Tag(merged_deg.rows[i])
           /\ Abs(LogFC(SignificantRows[k])) = Abs(LogFC(merged_deg.rows[i]))
           /\ SignificantRows[k].index < merged_deg.rows[i].index

\* C10: every row that reaches the significance filter, and so every row of
\* DegSet, test_up, control_up and every line of the two lists, has a
\* Locus_tag that is non-null and starts with "SO"; in single-file mode the
\* rows past the filter are exactly those whose normalised ORF starts with
\* "SO", and invalid_count counts the others.
Recognised(v) == v # NaN /\ Len(v) >= 2 /\ v[1] = "S" /\ v[2] = "O"

AllRecognised(df) == \A i \in DOMAIN df.rows : Recognised(Tag(df.rows[i]))

C10_AnnotatedRow ==
    /\ (pc \in {"deg_filter", "dedup", "split", "downloads", "done"}
          \/ message \in {"no_degs", "missing_stat_columns"}) =>
         /\ AllRecognised(merged)
         /\ AllRecognised(merged_deg)
         /\ AllRecognised(test_up)
         /\ AllRecognised(control_up)
         /\ mode = "single" =>
              /\ \A i \in DOMAIN geo_df.rows :
                   Recognised(Normalised(Tag(geo_df.rows[i]))) <=>
                     (\E j \in DOMAIN merged.rows :
                        merged.rows[j].index = geo_df.rows[i].index)
              /\ invalid_count = Len(geo_df.rows) - Len(merged.rows)
         /\ mode = "merge" => invalid_count = after_drop - Len(merged.rows)
    /\ \A i \in DOMAIN test_up_bytes : Recognised(test_up_bytes[i])
    /\ \A i \in DOMAIN control_up_bytes : Recognised(control_up_bytes[i])

\* a run that excluded a row at the identifier filter and finished
C10_Witness ==
    /\ pc = "done"
    /\ invalid_count > 0
    /\ test_up_bytes # <<>>
====
